---------------------------- MODULE Spec2Model ----------------------------
(***************************************************************************)
(* A model of src/app.py: the document ingestion and question answering    *)
(* pipeline of the Streamlit application.                                  *)
(*                                                                         *)
(* One run of the script main() is modelled: the uploaded files are the    *)
(* input of the run, process_files_concurrently extracts and chunks them,  *)
(* the question text area and the two buttons are read, and               *)
(* generate_answers_for_multiple_questions issues one LLM call per step.   *)
(*                                                                         *)
(* Texts are sequences of one-character strings.  Python's 0-based         *)
(* document index doc_idx is kept 0-based; document_chunks[doc_idx] of the *)
(* code is document_chunks[doc_idx + 1] here.                              *)
(*                                                                         *)
(* The second value that the extractors return (the labelled               *)
(* extracted_text that main stores in the session state) is written and    *)
(* never read by any operation of the file; it is not part of the state.   *)
(***************************************************************************)
EXTENDS Integers, Sequences, FiniteSets, TLC

(***************************************************************************)
(* Bounds of the model.                                                    *)
(***************************************************************************)
\* Largest number of uploaded files.
MaxFiles == 2
\* Largest number of pages of a PDF document.
MaxPages == 2
\* Largest number of embedded images of a page.
MaxImages == 1
\* Largest number of paragraphs of a Word document.
MaxParas == 1
\* Largest number of characters typed into the question text area.
MaxInput == 3
\* chunk_size of the extractors.  The source's default is 5000 (lines 92,
\* 123, 129); it is scaled down so that the bounded texts of the model span
\* several chunks.
DefaultChunkSize == 2
\* Bounds of the inputs of chunk_text when it is checked on its own.
MaxTextLen == 4
MaxChunkSize == 5

(***************************************************************************)
(* Python string and list helpers.                                         *)
(***************************************************************************)
Min(a, b) == IF a <= b THEN a ELSE b

\* "".join(parts)
RECURSIVE Join(_)
Join(parts) ==
    IF parts = <<>> THEN <<>> ELSE Head(parts) \o Join(Tail(parts))

\* text[i:j] for 0 <= i, 0 <= j: the slice is clamped to the text.
Slice(text, i, j) == SubSeq(text, i + 1, Min(j, Len(text)))

\* list(range(start, stop, step)) for step >= 1
RECURSIVE Range(_, _, _)
Range(start, stop, step) ==
    IF start >= stop THEN <<>>
    ELSE <<start>> \o Range(start + step, stop, step)

\* A plausible slip of chunk_text: the slice ends one character early.
chunk_text_short_slice(text, chunk_size) ==
    LET starts == Range(0, Len(text), chunk_size)
    IN  [k \in 1..Len(starts) |->
            Slice(text, starts[k], starts[k] + chunk_size - 1)]

\* A plausible slip of chunk_text: the slice is one character too long, so
\* that neighbouring chunks overlap.
chunk_text_long_slice(text, chunk_size) ==
    LET starts == Range(0, Len(text), chunk_size)
    IN  [k \in 1..Len(starts) |->
            Slice(text, starts[k], starts[k] + chunk_size + 1)]

\* chunk_text(text, chunk_size):
\*   [text[i:i + chunk_size] for i in range(0, len(text), chunk_size)]
chunk_text(text, chunk_size) ==
    LET starts == Range(0, Len(text), chunk_size)
    IN  [k \in 1..Len(starts) |->
            Slice(text, starts[k], starts[k] + chunk_size)]

\* Characters that str.strip() removes.
IsSpace(c) == c \in {" ", "\n", "\t"}

RECURSIVE LStrip(_)
LStrip(s) ==
    IF s # <<>> /\ IsSpace(Head(s)) THEN LStrip(Tail(s)) ELSE s

RECURSIVE RStrip(_)
RStrip(s) ==
    IF s # <<>> /\ IsSpace(s[Len(s)])
    THEN RStrip(SubSeq(s, 1, Len(s) - 1)) ELSE s

\* s.strip()
Strip(s) == RStrip(LStrip(s))

\* s.split(sep) for a one-character separator: always at least one piece.
RECURSIVE Split(_, _)
Split(s, sep) ==
    IF \A i \in DOMAIN s : s[i] # sep THEN <<s>>
    ELSE LET i == CHOOSE k \in DOMAIN s :
                    s[k] = sep /\ \A m \in 1..(k - 1) : s[m] # sep
         IN  <<SubSeq(s, 1, i - 1)>> \o Split(SubSeq(s, i + 1, Len(s)), sep)

\* [q.strip() for q in pieces if q.strip()]
RECURSIVE StripNonBlank(_)
StripNonBlank(pieces) ==
    IF pieces = <<>> THEN <<>>
    ELSE (IF Strip(Head(pieces)) # <<>> THEN <<Strip(Head(pieces))>> ELSE <<>>)
         \o StripNonBlank(Tail(pieces))

\* All sequences over S of length at most n.
SeqsUpTo(S, n) == UNION {[1..k -> S] : k \in 0..n}

(***************************************************************************)
(* Python dict, as the insertion-ordered list of its items.                *)
(***************************************************************************)
DictKeys(d) == {d[i].key : i \in DOMAIN d}

DictGet(d, k) == d[CHOOSE i \in DOMAIN d : d[i].key = k].value

\* d[k] = v: a new key is appended, an existing key keeps its position.
DictSet(d, k, v) ==
    IF k \in DictKeys(d)
    THEN [i \in DOMAIN d |-> IF d[i].key = k THEN [key |-> k, value |-> v]
                                             ELSE d[i]]
    ELSE Append(d, [key |-> k, value |-> v])

\* The value stored for a question: None, or a dict of answers by document.
PyNone == [isNone |-> TRUE, items |-> <<>>]
PyDict(items) == [isNone |-> FALSE, items |-> items]

\* Truth value of a stored value: None and the empty dict are false.
Truthy(v) == ~v.isNone /\ v.items # <<>>

(***************************************************************************)
(* The uploaded files and what reading them yields.                        *)
(***************************************************************************)
PdfType == "application/pdf"
DocxType ==
    "application/vnd.openxmlformats-officedocument.wordprocessingml.document"
\* Any other media type the browser may report for the file.
OtherType == "application/octet-stream"
FileTypes == {PdfType, DocxType, OtherType}

\* uploaded_files: the i-th file carries the i-th name.
FileNames == <<"first", "second", "third">>
UploadedFileLists ==
    UNION {{[i \in 1..n |-> [name |-> FileNames[i], type |-> t[i]]] :
                t \in [1..n -> FileTypes]} : n \in 0..MaxFiles}

PageTexts == {<<"a">>}
OcrTexts == {<<"o">>}
ParaTexts == {<<>>, <<"p">>}

\* An embedded image: ok is FALSE when extract_image, Image.open or
\* image_to_string raises for it.
Images == [ocr : OcrTexts, ok : BOOLEAN]
\* A page: fail is "text" when load_page or get_text raises, "images" when
\* get_images raises (the page's text is appended by then).
Pages == [text : PageTexts, fail : {"none", "text", "images"},
          images : SeqsUpTo(Images, MaxImages)]
\* What the bytes of an uploaded file hold: readable is FALSE when opening
\* them (fitz.open, docx.Document) raises.
PdfBlobs == [readable : BOOLEAN, pages : SeqsUpTo(Pages, MaxPages),
             paragraphs : {<<>>}]
DocxBlobs == [readable : BOOLEAN, pages : {<<>>},
              paragraphs : SeqsUpTo(ParaTexts, MaxParas)]
OtherBlobs == [readable : {FALSE}, pages : {<<>>}, paragraphs : {<<>>}]
Blobs(file_type) ==
    IF file_type = PdfType THEN PdfBlobs
    ELSE IF file_type = DocxType THEN DocxBlobs ELSE OtherBlobs

\* The result of a call: a returned value, or an exception that escapes.
Return(v) == [raised |-> FALSE, value |-> v]
Raise == [raised |-> TRUE, value |-> <<>>]

\* Lines 106-116: the OCR text of the images of a page, a failing image
\* skipped.
RECURSIVE ImagesText(_)
ImagesText(images) ==
    IF images = <<>> THEN <<>>
    ELSE (IF Head(images).ok THEN Head(images).ocr ELSE <<>>)
         \o ImagesText(Tail(images))

\* Lines 98-118: what one page adds to pdf_text.
PageText(page) ==
    IF page.fail = "text" THEN <<>>
    ELSE page.text \o (IF page.fail = "images" THEN <<>>
                       ELSE ImagesText(page.images))

\* Lines 97-118: pdf_text after the loop over the pages.
RECURSIVE PdfText(_)
PdfText(pages) ==
    IF pages = <<>> THEN <<>>
    ELSE PageText(Head(pages)) \o PdfText(Tail(pages))

\* extract_pdf_text: fitz.open is outside every try.
extract_pdf_text(blob, chunk_size) ==
    IF ~blob.readable THEN Raise
    ELSE Return(chunk_text(PdfText(blob.pages), chunk_size))

\* Line 125: "".join(para.text + "\n" for para in doc.paragraphs)
RECURSIVE DocxText(_)
DocxText(paragraphs) ==
    IF paragraphs = <<>> THEN <<>>
    ELSE Head(paragraphs) \o <<"\n">> \o DocxText(Tail(paragraphs))

\* extract_docx_text: docx.Document is outside every try.
extract_docx_text(blob, chunk_size) ==
    IF ~blob.readable THEN Raise
    ELSE Return(chunk_text(DocxText(blob.paragraphs), chunk_size))

\* Lines 139-145: the extractor is chosen by the media type of the file; a
\* file of any other type yields no chunks.
extract(file_type, blob) ==
    IF file_type = PdfType THEN extract_pdf_text(blob, DefaultChunkSize)
    ELSE IF file_type = DocxType
    THEN extract_docx_text(blob, DefaultChunkSize)
    ELSE Return(<<>>)

\* A plausible slip of the loop body of process_files_concurrently: a file
\* of an unsupported type is dropped instead of contributing an empty list.
process_file_drop_unsupported(chunk_lists, file_type, blob) ==
    LET r == extract(file_type, blob)
    IN  IF r.raised THEN Raise
        ELSE IF file_type \in {PdfType, DocxType}
        THEN Return(Append(chunk_lists, r.value))
        ELSE Return(chunk_lists)

\* Lines 139-146, the loop body of process_files_concurrently: the new
\* document_chunks, or the exception of the extractor, which nothing catches.
process_file(chunk_lists, file_type, blob) ==
    LET r == extract(file_type, blob)
    IN  IF r.raised THEN Raise ELSE Return(Append(chunk_lists, r.value))

(***************************************************************************)
(* The LLM call.                                                           *)
(***************************************************************************)
\* What model.generate_content does: it returns a response with a text, or
\* it raises with a message.
Responses == {<<"y">>, <<" ">>}
Messages == {<<"t">>}
LLMOutcomes == [ok : {TRUE}, text : Responses] \cup
               [ok : {FALSE}, text : Messages]

ErrorPrefix == <<"Error occurred: ">>

\* A plausible slip of perform_analysis: the exception is not caught.
perform_analysis_propagates(question, chunk, outcome) ==
    IF outcome.ok THEN Return(Strip(outcome.text)) ELSE Raise

\* perform_analysis: response.text.strip(), or f"Error occurred: {e}".
perform_analysis(question, chunk, outcome) ==
    IF outcome.ok THEN Return(Strip(outcome.text))
    ELSE Return(ErrorPrefix \o outcome.text)

\* A plausible slip of line 176: "if answer is not None:".
AnswerFound_not_none(answer) == TRUE

\* Line 176: "if answer:", the truth value of the answer string.
AnswerFound(answer) == answer # <<>>

\* A plausible slip of lines 176-179: the break is missing.
BreakAfterAnswer_missing(answer) == FALSE

\* Lines 176-179: the break leaves the loop over the chunks once an answer
\* is found.
BreakAfterAnswer(answer) == AnswerFound(answer)

\* A plausible slip of line 171: "if processed_docs:".
AlreadyProcessed_any(d, processed) == processed # {}

\* Line 171: "if doc_idx in processed_docs:".
AlreadyProcessed(d, processed) == d \in processed

\* A plausible slip of line 182: the dict is stored as it is.
StoredAnswers_as_is(answers) == PyDict(answers)

\* Line 182: relevant_answers if relevant_answers else None
StoredAnswers(answers) ==
    IF answers # <<>> THEN PyDict(answers) ELSE PyNone

(***************************************************************************)
(* What the page shows: the list of the elements written to it.            *)
(***************************************************************************)
Element(kind, question, doc, name, answer) ==
    [kind |-> kind, question |-> question, doc |-> doc, name |-> name,
     answer |-> answer]
Plain(kind) == Element(kind, <<>>, 0, "", <<>>)

\* Lines 72 and 83: f"Document {idx + 1} ({uploaded_files[idx].name})"
DocumentOf(kind, question, item, files) ==
    Element(kind, question, item.key + 1, files[item.key + 1].name, item.value)

\* uploaded_files[idx] raises IndexError for an index past the list.
IndexErrorIn(answers, files) ==
    \E i \in DOMAIN answers :
        /\ Truthy(answers[i].value)
        /\ \E j \in DOMAIN answers[i].value.items :
               answers[i].value.items[j].key + 1 \notin DOMAIN files

\* Lines 69-74: what display_answers_normal writes for one question.
NormalBlock(entry, files) ==
    <<Element("question", entry.key, 0, "", <<>>)>> \o
    (IF Truthy(entry.value)
     THEN [j \in DOMAIN entry.value.items |->
              DocumentOf("answer", entry.key, entry.value.items[j], files)]
     ELSE <<Plain("no_answers")>>)

\* display_answers_normal
RECURSIVE display_answers_normal(_, _)
display_answers_normal(answers, files) ==
    IF answers = <<>> THEN <<>>
    ELSE NormalBlock(Head(answers), files)
         \o display_answers_normal(Tail(answers), files)

\* Lines 80-83: the rows of table_data.
RECURSIVE TableData(_, _)
TableData(answers, files) ==
    IF answers = <<>> THEN <<>>
    ELSE (IF Truthy(Head(answers).value)
          THEN [j \in DOMAIN Head(answers).value.items |->
                   DocumentOf("row", Head(answers).key,
                              Head(answers).value.items[j], files)]
          ELSE <<>>)
         \o TableData(Tail(answers), files)

\* display_answers_tabulated: the data frame is written after its rows are
\* collected.
display_answers_tabulated(answers, files) ==
    <<Plain("table")>> \o TableData(answers, files)

(***************************************************************************)
(* The state.                                                              *)
(***************************************************************************)
VARIABLES
    pc,                \* where the run of main() is
    error,             \* the exception that ended the run, "" for none
    uploaded_files,    \* st.file_uploader(...)
    document_chunks,   \* document_chunks of process_files_concurrently/main
    session_state,     \* st.session_state.document_chunks
    custom_question,   \* st.text_area(...)
    button,            \* the button pressed in this run, "none" for neither
    questions,         \* questions of main
    q_idx,             \* number of questions whose iteration is over
    doc_idx,           \* doc_idx of enumerate(document_chunks)
    chunk_idx,         \* position of chunk in chunks
    relevant_answers,  \* relevant_answers
    processed_docs,    \* processed_docs
    all_answers,       \* all_answers
    screen,            \* what the page shows
    file_idx,          \* number of uploaded files whose iteration is over
    calls,             \* history: the calls of perform_analysis, in order
    extracted,         \* history: the chunks extracted, by file position
    ct_text, ct_size, ct_chunks, ct_done  \* a call of chunk_text on its own

runVars == <<pc, error, uploaded_files, document_chunks, session_state,
             custom_question, button, questions, q_idx, doc_idx, chunk_idx,
             relevant_answers, processed_docs, all_answers, screen,
             file_idx, calls, extracted>>
ctVars == <<ct_text, ct_size, ct_chunks, ct_done>>
vars == <<runVars, ctVars>>

\* What the user may type into the text area.
InputChars == {"q", "r", " ", "\n"}
TextAreas == SeqsUpTo(InputChars, MaxInput)
Buttons == {"none", "normal", "tabulated"}

\* The state before main() reads the file uploader.
RunStart ==
    /\ pc = "main"
    /\ error = ""
    /\ document_chunks = <<>>
    /\ session_state = <<>>
    /\ custom_question = <<>>
    /\ button = "none"
    /\ questions = <<>>
    /\ q_idx = 0
    /\ doc_idx = 0
    /\ chunk_idx = 0
    /\ relevant_answers = <<>>
    /\ processed_docs = {}
    /\ all_answers = <<>>
    /\ screen = <<>>
    /\ file_idx = 0
    /\ calls = <<>>
    /\ extracted = <<>>

CtIdle ==
    /\ ct_text = <<>>
    /\ ct_size = 1
    /\ ct_chunks = <<>>
    /\ ct_done = FALSE

Init ==
    /\ RunStart
    /\ uploaded_files \in UploadedFileLists
    /\ CtIdle

(***************************************************************************)
(* main and process_files_concurrently.                                    *)
(***************************************************************************)
\* Lines 29-33: "if uploaded_files:" and the call of
\* process_files_concurrently, lines 136-137.
Main ==
    /\ pc = "main"
    /\ pc' = IF uploaded_files # <<>> THEN "process" ELSE "done"
    /\ UNCHANGED <<error, uploaded_files, document_chunks, session_state,
                   custom_question, button, questions, q_idx, doc_idx,
                   chunk_idx, relevant_answers, processed_docs, all_answers,
                   screen, file_idx, calls, extracted, ctVars>>

\* Lines 138-147: one iteration of the loop over the uploaded files.
ProcessFile ==
    /\ pc = "process"
    /\ file_idx < Len(uploaded_files)
    /\ LET file == uploaded_files[file_idx + 1]
       IN  \E blob \in Blobs(file.type) :
               LET r == process_file(document_chunks, file.type, blob)
               IN  IF r.raised
                   THEN /\ pc' = "raised"
                        /\ error' = "open"
                        /\ UNCHANGED <<document_chunks, extracted, file_idx>>
                   ELSE /\ document_chunks' = r.value
                        /\ extracted' =
                              Append(extracted, extract(file.type, blob).value)
                        /\ file_idx' = file_idx + 1
                        /\ UNCHANGED <<pc, error>>
    /\ UNCHANGED <<uploaded_files, session_state, custom_question, button,
                   questions, q_idx, doc_idx, chunk_idx, relevant_answers,
                   processed_docs, all_answers, screen, calls, ctVars>>

\* Parsing of the text area, line 54.
ParseQuestions(text) == StripNonBlank(Split(text, "\n"))

\* Lines 149 and 36-64: process_files_concurrently returns, the session
\* state is set, the text area and the buttons are read.
ReadWidgets ==
    /\ pc = "process"
    /\ file_idx = Len(uploaded_files)
    /\ session_state' = document_chunks
    /\ \E text \in TextAreas, pressed \in Buttons :
          /\ custom_question' = text
          /\ button' = pressed
          /\ IF pressed = "none"
             THEN /\ pc' = "done"
                  /\ UNCHANGED <<questions, screen>>
             ELSE IF text # <<>>
             THEN /\ questions' = ParseQuestions(text)
                  /\ pc' = "for_question"
                  /\ UNCHANGED screen
             ELSE /\ screen' = Append(screen, Plain("warning"))
                  /\ pc' = "done"
                  /\ UNCHANGED questions
    /\ UNCHANGED <<error, uploaded_files, document_chunks, q_idx, doc_idx,
                   chunk_idx, relevant_answers, processed_docs, all_answers,
                   file_idx, calls, extracted, ctVars>>

(***************************************************************************)
(* generate_answers_for_multiple_questions.                                *)
(***************************************************************************)
\* Lines 164-168 and 184: the next question, or the return to main.
NextQuestion ==
    /\ pc = "for_question"
    /\ IF q_idx < Len(questions)
       THEN /\ relevant_answers' = <<>>
            /\ processed_docs' = {}
            /\ doc_idx' = 0
            /\ pc' = "for_doc"
       ELSE /\ pc' = "display"
            /\ UNCHANGED <<relevant_answers, processed_docs, doc_idx>>
    /\ UNCHANGED <<error, uploaded_files, document_chunks, session_state,
                   custom_question, button, questions, q_idx, chunk_idx,
                   all_answers, screen, file_idx, calls, extracted, ctVars>>

\* Lines 170-172 and 182: the next document, or the end of the question.
NextDoc ==
    /\ pc = "for_doc"
    /\ IF doc_idx < Len(document_chunks)
       THEN /\ IF AlreadyProcessed(doc_idx, processed_docs)
               THEN /\ doc_idx' = doc_idx + 1
                    /\ UNCHANGED <<pc, chunk_idx>>
               ELSE /\ chunk_idx' = 0
                    /\ pc' = "for_chunk"
                    /\ UNCHANGED doc_idx
            /\ UNCHANGED <<all_answers, q_idx>>
       ELSE /\ all_answers' = DictSet(all_answers, questions[q_idx + 1],
                                      StoredAnswers(relevant_answers))
            /\ q_idx' = q_idx + 1
            /\ pc' = "for_question"
            /\ UNCHANGED <<doc_idx, chunk_idx>>
    /\ UNCHANGED <<error, uploaded_files, document_chunks, session_state,
                   custom_question, button, questions, relevant_answers,
                   processed_docs, screen, file_idx, calls, extracted,
                   ctVars>>

\* Lines 174-179: the next chunk of the document and the call of
\* perform_analysis on it, or the end of the chunks.
AnalyzeChunk ==
    /\ pc = "for_chunk"
    /\ LET chunks == document_chunks[doc_idx + 1]
       IN  IF chunk_idx < Len(chunks)
           THEN \E outcome \in LLMOutcomes :
                  LET r == perform_analysis(questions[q_idx + 1],
                                            chunks[chunk_idx + 1], outcome)
                  IN  /\ calls' = Append(calls,
                                         [q |-> q_idx, d |-> doc_idx,
                                          c |-> chunk_idx, ok |-> outcome.ok,
                                          text |-> outcome.text,
                                          answer |-> r.value])
                      /\ IF r.raised
                         THEN /\ pc' = "raised"
                              /\ error' = "llm"
                              /\ UNCHANGED <<relevant_answers, processed_docs,
                                             doc_idx, chunk_idx>>
                         ELSE /\ error' = error
                              /\ IF AnswerFound(r.value)
                                 THEN /\ relevant_answers' =
                                           DictSet(relevant_answers, doc_idx,
                                                   r.value)
                                      /\ processed_docs' =
                                           processed_docs \cup {doc_idx}
                                 ELSE UNCHANGED <<relevant_answers,
                                                  processed_docs>>
                              /\ IF BreakAfterAnswer(r.value)
                                 THEN /\ doc_idx' = doc_idx + 1
                                      /\ pc' = "for_doc"
                                      /\ UNCHANGED chunk_idx
                                 ELSE /\ chunk_idx' = chunk_idx + 1
                                      /\ UNCHANGED <<pc, doc_idx>>
           ELSE /\ doc_idx' = doc_idx + 1
                /\ pc' = "for_doc"
                /\ UNCHANGED <<error, relevant_answers, processed_docs,
                               chunk_idx, calls>>
    /\ UNCHANGED <<uploaded_files, document_chunks, session_state,
                   custom_question, button, questions, q_idx, all_answers,
                   screen, file_idx, extracted, ctVars>>

\* Lines 57-62: the answers are shown in the form of the pressed button.
Display ==
    /\ pc = "display"
    /\ IF IndexErrorIn(all_answers, uploaded_files)
       THEN /\ pc' = "raised"
            /\ error' = "index"
            /\ screen' = Append(screen, Plain(button))
       ELSE /\ pc' = "done"
            /\ error' = error
            /\ screen' = screen \o <<Plain(button)>> \o
                  (IF button = "normal"
                   THEN display_answers_normal(all_answers, uploaded_files)
                   ELSE display_answers_tabulated(all_answers,
                                                  uploaded_files))
    /\ UNCHANGED <<uploaded_files, document_chunks, session_state,
                   custom_question, button, questions, q_idx, doc_idx,
                   chunk_idx, relevant_answers, processed_docs, all_answers,
                   file_idx, calls, extracted, ctVars>>

Next ==
    \/ Main
    \/ ProcessFile
    \/ ReadWidgets
    \/ NextQuestion
    \/ NextDoc
    \/ AnalyzeChunk
    \/ Display

\* One run of main().
Spec == Init /\ [][Next]_vars

\* The run goes on as long as it has a step to take: the script is one
\* sequential thread.
FairSpec == Spec /\ WF_vars(Next)

(***************************************************************************)
(* chunk_text on its own, for any text and any chunk size.                 *)
(***************************************************************************)
TextChars == {"a", "b"}

ChunkInit ==
    /\ RunStart
    /\ uploaded_files = <<>>
    /\ ct_text \in SeqsUpTo(TextChars, MaxTextLen)
    /\ ct_size \in 1..MaxChunkSize
    /\ ct_chunks = <<>>
    /\ ct_done = FALSE

ChunkCall ==
    /\ ~ct_done
    /\ ct_chunks' = chunk_text(ct_text, ct_size)
    /\ ct_done' = TRUE
    /\ UNCHANGED <<ct_text, ct_size, runVars>>

ChunkNext == ChunkCall

ChunkSpec == ChunkInit /\ [][ChunkNext]_vars

(***************************************************************************)
(* Properties of chunk_text.                                               *)
(***************************************************************************)
\* Number of characters of the chunks before chunk k.
RECURSIVE OffsetOf(_, _)
OffsetOf(chunks, k) ==
    IF k <= 1 THEN 0 ELSE OffsetOf(chunks, k - 1) + Len(chunks[k - 1])

\* C5: for any text, the empty text included, and any chunk size n >= 1,
\* the pieces that chunk_text(text, n) returns, concatenated in order, are
\* the text.
C5_ChunksReconstructText ==
    ct_done => Join(ct_chunks) = ct_text

\* chunk_text has cut a text into several chunks, the last one shorter.
C5_Witness ==
    /\ ct_done
    /\ Len(ct_chunks) >= 2
    /\ Len(ct_chunks[Len(ct_chunks)]) < ct_size
    /\ \E i, j \in DOMAIN ct_text : ct_text[i] # ct_text[j]

\* C6: for any text and any chunk size n >= 1, the chunks are contiguous
\* slices of the text that do not overlap and follow its order, every chunk
\* has at least 1 and at most n characters, every chunk but the last has
\* exactly n, there are ceil(len(text) / n) chunks, and the empty text has
\* none.
C6_ChunksAreBoundedSlices ==
    ct_done =>
        /\ \A k \in DOMAIN ct_chunks :
              /\ Len(ct_chunks[k]) >= 1
              /\ Len(ct_chunks[k]) <= ct_size
              /\ k < Len(ct_chunks) => Len(ct_chunks[k]) = ct_size
              /\ ct_chunks[k] =
                    SubSeq(ct_text, OffsetOf(ct_chunks, k) + 1,
                           OffsetOf(ct_chunks, k) + Len(ct_chunks[k]))
        /\ Len(ct_chunks) = (Len(ct_text) + ct_size - 1) \div ct_size
        /\ ct_text = <<>> => ct_chunks = <<>>

\* chunk_text has cut a text of four characters into a chunk of three and a
\* chunk of one.
C6_Witness ==
    /\ ct_done
    /\ ct_size = 3
    /\ Len(ct_text) = 4
    /\ Len(ct_chunks) = 2
    /\ Len(ct_chunks[1]) = 3
    /\ Len(ct_chunks[2]) = 1

(***************************************************************************)
(* Properties of generate_answers_for_multiple_questions.  A question is   *)
(* an element of the batch, named by its position q (0-based); the result  *)
(* is keyed by the text of the question, so that a text the batch repeats  *)
(* keeps the mapping of its last iteration.                                *)
(***************************************************************************)
\* The calls made for question q and document d.
CallsOf(q, d) == {i \in DOMAIN calls : calls[i].q = q /\ calls[i].d = d}

\* The calls for question q and document d that returned a non-empty answer.
AnsweringCalls(q, d) == {i \in CallsOf(q, d) : calls[i].answer # <<>>}

\* The documents that answered question q.
AnsweredDocs(q) ==
    {d \in 0..(Len(document_chunks) - 1) : AnsweringCalls(q, d) # {}}

\* The answer of the first chunk, in chunk order, that answered.
FirstAnswer(q, d) ==
    LET i == CHOOSE k \in AnsweringCalls(q, d) :
                 \A m \in AnsweringCalls(q, d) : calls[k].c <= calls[m].c
    IN  calls[i].answer

\* Question q is over and no later question that is over has its text.
LastFinished(q) ==
    /\ q < q_idx
    /\ \A r \in (q + 1)..(q_idx - 1) : questions[r + 1] # questions[q + 1]

\* C1: whatever each LLM call yields (text, empty text or a failure), every
\* question of the result maps to a non-empty mapping from document index
\* to answer or to None, never to an empty mapping, and a question for
\* which no chunk of any document produced a non-empty answer maps to None.
C1_NonEmptyMappingOrNone ==
    \A i \in DOMAIN all_answers :
        LET v == all_answers[i].value
        IN  /\ v.isNone \/ v.items # <<>>
            /\ (\A k \in DOMAIN calls :
                   questions[calls[k].q + 1] = all_answers[i].key
                       => calls[k].answer = <<>>)
               => v = PyNone

\* The function has returned a result in which one question, whose calls
\* all returned empty text, maps to None and another maps to answers.
C1_Witness ==
    /\ pc = "done"
    /\ Len(all_answers) = 2
    /\ all_answers[1].value = PyNone
    /\ \E k \in DOMAIN calls : calls[k].q = 0
    /\ all_answers[2].value.items # <<>>

\* Position (q, d, c) of call i comes before that of call j.
Before(i, j) ==
    \/ calls[i].q < calls[j].q
    \/ calls[i].q = calls[j].q /\ calls[i].d < calls[j].d
    \/ calls[i].q = calls[j].q /\ calls[i].d = calls[j].d
         /\ calls[i].c < calls[j].c

\* C2: the calls are issued in the order question, then document, then
\* chunk, and once a chunk's call returns a non-empty answer no call is
\* issued for a later chunk of that document for that question: the next
\* call is for a later document or a later question.
C2_CallOrderAndFirstAnswerWins ==
    /\ \A i \in DOMAIN calls :
          /\ calls[i].q < Len(questions)
          /\ calls[i].d < Len(document_chunks)
          /\ calls[i].c < Len(document_chunks[calls[i].d + 1])
    /\ \A i, j \in DOMAIN calls :
          i < j =>
              /\ Before(i, j)
              /\ calls[i].answer # <<>> =>
                    \/ calls[j].q > calls[i].q
                    \/ calls[j].d > calls[i].d

\* The first chunk of a document of two chunks has answered, and the next
\* call is for the next document and the same question.
C2_Witness ==
    \E i \in DOMAIN calls :
        /\ calls[i].c = 0
        /\ calls[i].answer # <<>>
        /\ Len(document_chunks[calls[i].d + 1]) = 2
        /\ i + 1 \in DOMAIN calls
        /\ calls[i + 1].q = calls[i].q
        /\ calls[i + 1].d = calls[i].d + 1

\* generate_answers_for_multiple_questions has returned.
Returned == pc \in {"display", "done"} /\ button # "none"

\* C3: a failing LLM call makes perform_analysis return "Error occurred:
\* <message>" and nothing propagates; the orchestrator does not abort:
\* every document with chunks is still scanned for every question, and the
\* result has an entry for every question of the batch.
C3_FailuresDoNotAbort ==
    /\ error # "llm"
    /\ \A i \in DOMAIN calls :
          ~calls[i].ok => calls[i].answer = ErrorPrefix \o calls[i].text
    /\ Returned =>
          \A q \in 0..(Len(questions) - 1) :
              /\ questions[q + 1] \in DictKeys(all_answers)
              /\ \A d \in 0..(Len(document_chunks) - 1) :
                    document_chunks[d + 1] # <<>> => CallsOf(q, d) # {}

\* The first call of the batch failed, and the second document and the
\* second question were scanned after it.
C3_Witness ==
    /\ pc = "done"
    /\ Len(calls) >= 3
    /\ ~calls[1].ok
    /\ \E i \in DOMAIN calls : calls[i].q = 0 /\ calls[i].d = 1
    /\ \E i \in DOMAIN calls : calls[i].q = 1 /\ calls[i].d = 1
    /\ Len(all_answers) = 2
    /\ all_answers[1].value.items[1].value = ErrorPrefix \o <<"t">>

\* The value that the scan of question q must have stored.
ExpectedAnswers(q, v) ==
    IF AnsweredDocs(q) = {} THEN v = PyNone
    ELSE /\ ~v.isNone
         /\ DictKeys(v.items) = AnsweredDocs(q)
         /\ Len(v.items) = Cardinality(AnsweredDocs(q))
         /\ \A d \in AnsweredDocs(q) : DictGet(v.items, d) = FirstAnswer(q, d)

\* C4: the keys of the mapping of a question are exactly the documents for
\* which some chunk's call returned a non-empty answer, each with the
\* answer of its first chunk that did; a document that never answers (no
\* chunks, or only empty answers) is absent.
C4_KeysAreAnsweringDocs ==
    \A q \in 0..(Len(questions) - 1) :
        /\ LastFinished(q) =>
              /\ questions[q + 1] \in DictKeys(all_answers)
              /\ ExpectedAnswers(q, DictGet(all_answers, questions[q + 1]))
        /\ (q = q_idx /\ pc \in {"for_doc", "for_chunk"}) =>
              /\ DictKeys(relevant_answers) = AnsweredDocs(q)
              /\ processed_docs = AnsweredDocs(q)

\* Two documents and one question: the first document has chunks and never
\* answered, the second answered with its second chunk after its first
\* returned empty text, and the mapping has the one entry of the second.
C4_Witness ==
    /\ pc = "done"
    /\ Len(document_chunks) = 2
    /\ Len(questions) = 1
    /\ CallsOf(0, 0) # {}
    /\ Cardinality(CallsOf(0, 1)) = 2
    /\ Len(all_answers) = 1
    /\ ~all_answers[1].value.isNone
    /\ DictKeys(all_answers[1].value.items) = {1}

(***************************************************************************)
(* Properties of main and of process_files_concurrently.                   *)
(***************************************************************************)
\* An element of the page that shows an answer of a document.
IsAnswerElement(e) == e.kind \in {"answer", "row"}

\* C7: when a generate button is pressed and the text area holds no
\* question (it is empty, or all its lines are blank), no LLM call is made
\* and the warning is shown instead of answers being generated and
\* displayed.
C7_NoQuestionGivesWarning ==
    (button # "none" /\ ParseQuestions(custom_question) = <<>>) =>
        /\ calls = <<>>
        /\ pc \notin {"display", "raised"}
        /\ pc = "done" => screen = <<Plain("warning")>>

\* C8: extraction never raises: process_files_concurrently ends with one
\* chunk list for every uploaded file, an unreadable file giving an empty
\* one.
C8_ExtractionNeverRaises ==
    /\ error # "open"
    /\ pc \notin {"main", "process"} /\ uploaded_files # <<>> =>
          Len(document_chunks) = Len(uploaded_files)

\* The keys of a stored value.
StoredKeys(v) == IF v.isNone THEN {} ELSE DictKeys(v.items)

\* C9: process_files_concurrently returns one chunk list per uploaded file,
\* at the position of the file, an unsupported file giving an empty list;
\* every document index that is a key of an answer mapping is at least 0
\* and less than the number of files, and the answer shown for it is shown
\* with the number and the name of the file at that position.
C9_DocumentIndicesFollowUpload ==
    /\ Len(document_chunks) = file_idx
    /\ \A i \in 1..file_idx :
          /\ document_chunks[i] = extracted[i]
          /\ uploaded_files[i].type = OtherType => document_chunks[i] = <<>>
    /\ pc \notin {"main", "process", "raised"} /\ uploaded_files # <<>> =>
          Len(document_chunks) = Len(uploaded_files)
    /\ error # "index"
    /\ \A d \in DictKeys(relevant_answers) :
          d >= 0 /\ d < Len(uploaded_files)
    /\ \A i \in DOMAIN all_answers :
          \A d \in StoredKeys(all_answers[i].value) :
              d >= 0 /\ d < Len(uploaded_files)
    /\ \A i \in DOMAIN screen :
          IsAnswerElement(screen[i]) =>
              /\ screen[i].doc \in 1..Len(uploaded_files)
              /\ screen[i].name = uploaded_files[screen[i].doc].name
              /\ screen[i].question \in DictKeys(all_answers)
              /\ (screen[i].doc - 1) \in
                    StoredKeys(DictGet(all_answers, screen[i].question))
              /\ screen[i].answer =
                    DictGet(DictGet(all_answers, screen[i].question).items,
                            screen[i].doc - 1)
    /\ pc = "done" /\ button # "none" =>
          \A i \in DOMAIN all_answers :
              \A d \in StoredKeys(all_answers[i].value) :
                  \E k \in DOMAIN screen :
                      /\ IsAnswerElement(screen[k])
                      /\ screen[k].question = all_answers[i].key
                      /\ screen[k].doc = d + 1

\* An unsupported file was uploaded first and a PDF second; the answer of
\* the PDF is shown as that of document 2, with the name of the second file.
C9_Witness ==
    /\ pc = "done"
    /\ Len(uploaded_files) = 2
    /\ uploaded_files[1].type = OtherType
    /\ uploaded_files[2].type = PdfType
    /\ \E i \in DOMAIN screen :
          /\ screen[i].kind = "answer"
          /\ screen[i].doc = 2
          /\ screen[i].name = "second"

\* Number of chunks of all the documents.
RECURSIVE TotalChunks(_)
TotalChunks(chunk_lists) ==
    IF chunk_lists = <<>> THEN 0
    ELSE Len(Head(chunk_lists)) + TotalChunks(Tail(chunk_lists))

\* The numbers of calls that C10 allows.
CallCountsBounded ==
    /\ \A q \in 0..(Len(questions) - 1) :
          \A d \in 0..(Len(document_chunks) - 1) :
              LET n == Cardinality(CallsOf(q, d))
                  chunks == document_chunks[d + 1]
              IN  /\ n <= Len(chunks)
                  /\ q < q_idx /\ chunks # <<>> => n >= 1
    /\ Len(calls) <= Len(questions) * TotalChunks(document_chunks)

\* C10: every LLM call returning, generate_answers_for_multiple_questions
\* terminates; for each question it makes no call for a document without
\* chunks and between 1 and the number of its chunks for a document with
\* chunks, so at most (number of questions) x (number of chunks) in all.
C10_TerminatesWithBoundedCalls ==
    /\ (pc = "for_question" /\ q_idx = 0) ~> (pc = "display")
    /\ []CallCountsBounded

\* The function has returned after two questions over two documents of two
\* chunks each, one of them scanned to its end and one left after its first
\* chunk.
C10_Witness ==
    /\ pc = "display"
    /\ Len(questions) = 2
    /\ Len(document_chunks) = 2
    /\ Len(document_chunks[1]) = 2
    /\ Len(document_chunks[2]) = 2
    /\ Cardinality(CallsOf(0, 0)) = 2
    /\ Cardinality(CallsOf(1, 1)) = 1

=============================================================================
